---- MODULE Spec2Model ----
(***************************************************************************)
(* Eye-BioAmp Arduino firmware: 11_EOGSlidesControl.ino (double / triple   *)
(* blink slide control) and 10_EOGDinoR4.ino (single blink space bar).     *)
(*                                                                         *)
(* Spec      : loop() of the slides sketch step by step: elapsed-time      *)
(*             acquisition into eogCircBuffer, drain through               *)
(*             updateEOGEnvelope, then segment reset, blink classifier and  *)
(*             HID sink.                                                   *)
(* SpecBlink : loop() of either sketch one whole cycle per step, with the  *)
(*             millisecond clock and the envelope left by the drain loop   *)
(*             as the inputs of the cycle.                                 *)
(*                                                                         *)
(* float values are modelled exactly: samples are integers and the         *)
(* envelope is a rational <<numerator, denominator>>.                      *)
(***************************************************************************)
EXTENDS Integers, Sequences, FiniteSets, TLC

\* ---------------------------------------------------------------- bounds
\* loop() cycles explored by Spec
MaxCycles == 4
\* loop() cycles explored by SpecBlink
MaxBlinkCycles == 6
\* loop() calls explored at the sampling period, enough to fill a segment and reset it
MaxSegmentCycles == 520
\* loop() calls explored across the wrap of millis()
MaxWrapCycles == 6

\* ------------------------------------------------------- program constants
SAMPLE_RATE == 512
ENVELOPE_WINDOW_MS == 100
ENVELOPE_WINDOW_SIZE == (ENVELOPE_WINDOW_MS * SAMPLE_RATE) \div 1000
BUFFER_SIZE == 64
SEGMENT_SEC == 1
SAMPLES_PER_SEGMENT == SAMPLE_RATE * SEGMENT_SEC
period == 1000000 \div SAMPLE_RATE

BlinkLowerThreshold == <<30, 1>>
BlinkUpperThreshold == <<50, 1>>

BLINK_DEBOUNCE_MS == 200
DOUBLE_BLINK_MS == 600
TRIPLE_BLINK_MS == 600
HID_COOLDOWN_MS == 1000
DINO_BLINK_DEBOUNCE_MS == 300
DINO_HID_COOLDOWN_MS == 250

\* delay() calls of setup(), sendNextSlide(), sendPreviousSlide(), sendSpaceBar()
SETUP_DELAY_MS == 100 + 500 + 300 + 300
DINO_SETUP_DELAY_MS == 100 + 3 * (200 + 200)
NEXT_SLIDE_DELAY_MS == 50 + 100 + 100 + 100
PREVIOUS_SLIDE_DELAY_MS == 50 + 100 + 100 + 100 + 100 + 100
SPACE_BAR_DELAY_MS == 30 + 50

\* unsigned long and long are 32 bits wide on the UNO R4 (Renesas RA4M1); TLC's
\* integers end at 2^31 - 1, so the counters wrap at 2^30 here: the same modular
\* arithmetic on a word two bits narrower
WordModulus == 1024 * 1024 * 1024

\* unsigned subtraction a - b
USubNoWrap(a, b) == a - b
USub(a, b) == (a - b) % WordModulus
\* unsigned addition a + b
UAdd(a, b) == (a + b) % WordModulus
\* the cast (long) of an unsigned long
ToLong(u) == IF u >= WordModulus \div 2 THEN u - WordModulus ELSE u

\* fabs()
Fabs(x) == IF x < 0 THEN 0 - x ELSE x

\* comparison of two exact values <<n, d>> with d > 0
RatLT(a, b) == a[1] * b[2] < b[1] * a[2]

VARIABLES
  pc,                  \* position in loop() (Spec): "loop", "acquire", "drain", "process", "classify"
  cycles,              \* completed calls of loop()
  micros,              \* the microsecond counter micros()
  millis,              \* the millisecond counter millis()
  lastMicros, timer,   \* statics of loop()
  gain, alternate,     \* shape of the sampled signal
  nAcquired,           \* number of samples acquired so far
  eogCircBuffer, writeIndex, readIndex, samplesAvailable,
  eog,                 \* local of the drain loop: the sample just read
  passed,              \* history: the last ENVELOPE_WINDOW_SIZE samples given to updateEOGEnvelope
  eogEnvelopeBuffer, eogEnvelopeIndex, eogEnvelopeSum, currentEOGEnvelope,
  segmentIndex, lastSegmentTimeMs,
  variant,             \* "slides" or "dino"
  nowMs,               \* local of loop(): millis() read before the classifier
  lastBlinkTime, firstBlinkTime, secondBlinkTime, blinkCount,
  lastHIDCommandTime, totalBlinks,
  accepted,            \* the classifier's if-branch was entered in this cycle
  emitted,             \* patterns reported in this cycle ("Double blink detected!", ...)
  keySent,             \* key pressed by the sink in this cycle, or "none"
  reference            \* SpecWrap: the same run of the slides sketch started at counter value 0

timingVars == <<micros, millis, lastMicros, timer>>
signalVars == <<gain, alternate, nAcquired>>
queueVars == <<eogCircBuffer, writeIndex, readIndex, samplesAvailable, eog>>
envelopeVars == <<eogEnvelopeBuffer, eogEnvelopeIndex, eogEnvelopeSum, currentEOGEnvelope>>
historyVars == <<passed>>
segmentVars == <<segmentIndex, lastSegmentTimeMs>>
blinkVars == <<nowMs, lastBlinkTime, firstBlinkTime, secondBlinkTime, blinkCount,
               lastHIDCommandTime, totalBlinks, accepted, emitted, keySent>>
vars == <<pc, cycles, variant, timingVars, signalVars, queueVars, envelopeVars,
          historyVars, segmentVars, blinkVars, reference>>

\* ------------------------------------------------------------ Sample Queue

\* the filtered sample EOGFilter(Notch(analogRead())) of the n-th acquisition:
\* a ramp, so that every sample is distinguishable, optionally of alternating sign
FilteredSample(n) == IF alternate /\ n % 2 = 1 THEN 0 - gain * n ELSE gain * n

\* writeIndex = (writeIndex + 1) % BUFFER_SIZE, readIndex likewise
NextIndex(i) == (i + 1) % BUFFER_SIZE

\* if (samplesAvailable < BUFFER_SIZE) samplesAvailable++
PushCountUnclamped(avail) == avail + 1
PushCount(avail) == IF avail < BUFFER_SIZE THEN avail + 1 ELSE avail

\* samplesAvailable-- of the drain loop
PopCountStuck(avail) == avail
PopCount(avail) == avail - 1

\* timer -= interval
ChargeTimerReset(t, interval) == 0 - interval
ChargeTimer(t, interval) == t - interval

\* ---------------------------------------------------------------- Envelope

\* eogEnvelopeSum -= eogEnvelopeBuffer[eogEnvelopeIndex]; eogEnvelopeSum += absSample
EnvelopeSumNoSubtract(sum, leaving, absSample) == sum + absSample
EnvelopeSum(sum, leaving, absSample) == (sum - leaving) + absSample

\* eogEnvelopeIndex = (eogEnvelopeIndex + 1) % ENVELOPE_WINDOW_SIZE
NextEnvelopeIndex(i) == (i + 1) % ENVELOPE_WINDOW_SIZE

\* float absSample = fabs(sample)
AbsSampleSigned(sample) == sample
AbsSample(sample) == Fabs(sample)

\* updateEOGEnvelope(sample): the new envelope state and the returned average
updateEOGEnvelope(buf, idx, sum, sample) ==
  LET absSample == AbsSample(sample)
      newSum == EnvelopeSum(sum, buf[idx], absSample)
  IN [buffer |-> [buf EXCEPT ![idx] = absSample],
      index |-> NextEnvelopeIndex(idx),
      sum |-> newSum,
      result |-> <<newSum, ENVELOPE_WINDOW_SIZE>>]

\* the last ENVELOPE_WINDOW_SIZE elements of a sequence
LastWindow(q) ==
  IF Len(q) <= ENVELOPE_WINDOW_SIZE THEN q
  ELSE SubSeq(q, Len(q) - ENVELOPE_WINDOW_SIZE + 1, Len(q))

\* ------------------------------------------------- Blink Pattern Classifier

\* currentEOGEnvelope > BlinkLowerThreshold && currentEOGEnvelope < BlinkUpperThreshold
InBandInclusive(env) == ~RatLT(env, BlinkLowerThreshold) /\ ~RatLT(BlinkUpperThreshold, env)
InBand(env) == RatLT(BlinkLowerThreshold, env) /\ RatLT(env, BlinkUpperThreshold)

\* (nowMs - lastBlinkTime) >= BLINK_DEBOUNCE_MS
DebounceAlways(now, last) == TRUE
DebounceOffByOne(now, last) == USub(now, last) + 1 >= BLINK_DEBOUNCE_MS
DebounceElapsed(now, last) == USub(now, last) >= BLINK_DEBOUNCE_MS

\* (nowMs - lastBlinkTime) >= BLINK_DEBOUNCE_MS of the Dino sketch
DinoDebounceShort(now, last) == USub(now, last) >= BLINK_DEBOUNCE_MS
DinoDebounceElapsed(now, last) == USub(now, last) >= DINO_BLINK_DEBOUNCE_MS

\* (nowMs - firstBlinkTime) <= DOUBLE_BLINK_MS
WithinDoubleStrict(now, first) == USub(now, first) < DOUBLE_BLINK_MS
WithinDoubleWindow(now, first) == USub(now, first) <= DOUBLE_BLINK_MS

\* (nowMs - secondBlinkTime) <= TRIPLE_BLINK_MS
WithinTripleStrict(now, second) == USub(now, second) < TRIPLE_BLINK_MS
WithinTripleWindow(now, second) == USub(now, second) <= TRIPLE_BLINK_MS

\* blinkCount == 2 && (nowMs - secondBlinkTime) > TRIPLE_BLINK_MS
DoubleTimeoutLate(count, now, second) == count = 2 /\ USub(now, second) > TRIPLE_BLINK_MS + 1
DoubleTimeout(count, now, second) == count = 2 /\ USub(now, second) > TRIPLE_BLINK_MS

\* blinkCount == 1 && (nowMs - firstBlinkTime) > DOUBLE_BLINK_MS
SingleTimeoutLate(count, now, first) == count = 1 /\ USub(now, first) > DOUBLE_BLINK_MS + 1
SingleTimeout(count, now, first) == count = 1 /\ USub(now, first) > DOUBLE_BLINK_MS

\* the classifier's variables as one value; call is the sink function invoked
ClassifierState ==
  [lastBlinkTime |-> lastBlinkTime, firstBlinkTime |-> firstBlinkTime,
   secondBlinkTime |-> secondBlinkTime, blinkCount |-> blinkCount,
   accepted |-> FALSE, emitted |-> <<>>, call |-> "none"]

\* the body with the Triple branch leaving blinkCount as it is
BlinkEventNoReset(c, now) ==
  LET c0 == [c EXCEPT !.lastBlinkTime = now, !.accepted = TRUE]
  IN IF c0.blinkCount = 0
       THEN [c0 EXCEPT !.firstBlinkTime = now, !.blinkCount = 1]
     ELSE IF c0.blinkCount = 1 /\ WithinDoubleWindow(now, c0.firstBlinkTime)
       THEN [c0 EXCEPT !.secondBlinkTime = now, !.blinkCount = 2]
     ELSE IF c0.blinkCount = 2 /\ WithinTripleWindow(now, c0.secondBlinkTime)
       THEN [c0 EXCEPT !.emitted = Append(@, "Triple"), !.call = "previous"]
     ELSE [c0 EXCEPT !.firstBlinkTime = now, !.blinkCount = 1]

\* the body with the restart branch keeping the old firstBlinkTime
BlinkEventNoRestart(c, now) ==
  LET c0 == [c EXCEPT !.lastBlinkTime = now, !.accepted = TRUE]
  IN IF c0.blinkCount = 0
       THEN [c0 EXCEPT !.firstBlinkTime = now, !.blinkCount = 1]
     ELSE IF c0.blinkCount = 1 /\ WithinDoubleWindow(now, c0.firstBlinkTime)
       THEN [c0 EXCEPT !.secondBlinkTime = now, !.blinkCount = 2]
     ELSE IF c0.blinkCount = 2 /\ WithinTripleWindow(now, c0.secondBlinkTime)
       THEN [c0 EXCEPT !.emitted = Append(@, "Triple"), !.call = "previous",
                       !.blinkCount = 0]
     ELSE [c0 EXCEPT !.blinkCount = 1]

\* body of the if of "BLINK DETECTION AND HID CONTROL"
BlinkEvent(c, now) ==
  LET c0 == [c EXCEPT !.lastBlinkTime = now, !.accepted = TRUE]
  IN IF c0.blinkCount = 0
       THEN [c0 EXCEPT !.firstBlinkTime = now, !.blinkCount = 1]
     ELSE IF c0.blinkCount = 1 /\ WithinDoubleWindow(now, c0.firstBlinkTime)
       THEN [c0 EXCEPT !.secondBlinkTime = now, !.blinkCount = 2]
     ELSE IF c0.blinkCount = 2 /\ WithinTripleWindow(now, c0.secondBlinkTime)
       THEN [c0 EXCEPT !.emitted = Append(@, "Triple"), !.call = "previous",
                       !.blinkCount = 0]
     ELSE [c0 EXCEPT !.firstBlinkTime = now, !.blinkCount = 1]

\* "BLINK DETECTION AND HID CONTROL"
BlinkDetection(c, env, now) ==
  IF InBand(env) /\ DebounceElapsed(now, c.lastBlinkTime) THEN BlinkEvent(c, now) ELSE c

\* "BLINK TIMEOUT HANDLING"
BlinkTimeout(c, now) ==
  LET c1 == IF DoubleTimeout(c.blinkCount, now, c.secondBlinkTime)
              THEN [c EXCEPT !.emitted = Append(@, "Double"), !.call = "next",
                             !.blinkCount = 0]
              ELSE c
  IN IF SingleTimeout(c1.blinkCount, now, c1.firstBlinkTime)
       THEN [c1 EXCEPT !.blinkCount = 0]
       ELSE c1

\* the classifier part of one loop() of the slides sketch
SlidesClassifier(c, env, now) == BlinkTimeout(BlinkDetection(c, env, now), now)

\* (nowMs - lastHIDCommandTime) >= HID_COOLDOWN_MS in sendNextSlide / sendPreviousSlide
CooldownAlways(sinkNow, lastHID) == TRUE
CooldownElapsed(sinkNow, lastHID) == USub(sinkNow, lastHID) >= HID_COOLDOWN_MS

\* (nowMs - lastHIDCommandTime) >= HID_COOLDOWN_MS in sendSpaceBar
DinoCooldownElapsed(sinkNow, lastHID) == USub(sinkNow, lastHID) >= DINO_HID_COOLDOWN_MS

\* key pressed and time blocked by the sink function called
SinkKey(call) == IF call = "previous" THEN "Left" ELSE "Right"
SinkDelay(call) == IF call = "previous" THEN PREVIOUS_SLIDE_DELAY_MS ELSE NEXT_SLIDE_DELAY_MS

\* if (segmentIndex < SAMPLES_PER_SEGMENT) guarding eogBuffer[segmentIndex] = ...
SegmentHasRoomInclusive(i) == i <= SAMPLES_PER_SEGMENT
SegmentHasRoom(i) == i < SAMPLES_PER_SEGMENT

\* (nowMs - lastSegmentTimeMs) >= (1000UL * SEGMENT_SEC)
SegmentElapsed(now, lastSegment) == USub(now, lastSegment) >= 1000 * SEGMENT_SEC

\* lines 260-328 of the slides sketch: millis() reads t, then lag ms later in the sink
SlidesDetect(t, env, lag) ==
  LET c == SlidesClassifier(ClassifierState, env, t)
      sinkNow == UAdd(t, lag)
      send == c.call # "none" /\ CooldownElapsed(sinkNow, lastHIDCommandTime)
  IN /\ nowMs' = t
     /\ lastBlinkTime' = c.lastBlinkTime
     /\ firstBlinkTime' = c.firstBlinkTime
     /\ secondBlinkTime' = c.secondBlinkTime
     /\ blinkCount' = c.blinkCount
     /\ accepted' = c.accepted
     /\ emitted' = c.emitted
     /\ keySent' = IF send THEN SinkKey(c.call) ELSE "none"
     /\ lastHIDCommandTime' = IF send THEN sinkNow ELSE lastHIDCommandTime
     /\ millis' = IF c.call = "none" THEN t
                  ELSE IF send THEN UAdd(sinkNow, SinkDelay(c.call)) ELSE sinkNow
     /\ UNCHANGED totalBlinks

\* lines 242-282 of the Dino sketch
DinoDetect(t, env, lag) ==
  LET tick == InBand(env) /\ DinoDebounceElapsed(t, lastBlinkTime)
      sinkNow == UAdd(t, lag)
      send == tick /\ DinoCooldownElapsed(sinkNow, lastHIDCommandTime)
  IN /\ nowMs' = t
     /\ lastBlinkTime' = IF tick THEN t ELSE lastBlinkTime
     /\ accepted' = tick
     /\ emitted' = <<>>
     /\ keySent' = IF send THEN "Space" ELSE "none"
     /\ lastHIDCommandTime' = IF send THEN sinkNow ELSE lastHIDCommandTime
     /\ totalBlinks' = IF send THEN totalBlinks + 1 ELSE totalBlinks
     /\ millis' = IF ~tick THEN t
                  ELSE IF send THEN UAdd(sinkNow, SPACE_BAR_DELAY_MS) ELSE sinkNow
     /\ UNCHANGED <<firstBlinkTime, secondBlinkTime, blinkCount>>

\* --------------------------------------------------------------- inputs

\* microseconds between two reads of micros() at the top of loop()
ElapsedUs == {700, 1953, 2600, 127000}
\* milliseconds between the end of one loop() and the read of millis() in the next
ElapsedMs == {1, 199, 200, 600}
\* loop() called once per sampling period
SteadyUs == {period}
\* envelope left in currentEOGEnvelope by the drain loop
Envelopes == {<<1531, 51>>, <<50, 1>>}
\* milliseconds between the read of millis() in loop() and the one in the sink
\* (a cycle that calls no sink reads the clock once: lag 0)
SinkLagMs == {0, 1}
\* the same two quantities for the Dino sketch, around DINO_BLINK_DEBOUNCE_MS less
\* the time sendSpaceBar() blocks, and around the debounce less the cooldown
DinoElapsedMs == {1, 169, 171, 300}
\* milliseconds from the return of setup() to the wrap of millis()
WrapAfterMs == {1, 200, 401, 1001}
DinoSinkLagMs == {0, 49, 51}

\* ------------------------------------------------------------------ Init

\* the blink state at the return of setup() of the slides sketch, as a record
ReferenceStart ==
  [shift |-> 0, millis |-> SETUP_DELAY_MS,
   lastBlinkTime |-> 0, firstBlinkTime |-> 0, secondBlinkTime |-> 0, blinkCount |-> 0,
   lastHIDCommandTime |-> 0, accepted |-> FALSE, emitted |-> <<>>, keySent |-> "none"]

InitCommon ==
  /\ pc = "loop"
  /\ cycles = 0
  /\ lastMicros = 0
  /\ timer = 0
  /\ gain \in {1, 3}
  /\ alternate \in BOOLEAN
  /\ nAcquired = 0
  /\ eogCircBuffer = [i \in 0..(BUFFER_SIZE - 1) |-> 0]
  /\ writeIndex = 0
  /\ readIndex = 0
  /\ samplesAvailable = 0
  /\ eog = 0
  /\ passed = <<>>
  /\ eogEnvelopeBuffer = [i \in 0..(ENVELOPE_WINDOW_SIZE - 1) |-> 0]
  /\ eogEnvelopeIndex = 0
  /\ eogEnvelopeSum = 0
  /\ currentEOGEnvelope = <<0, 1>>
  /\ segmentIndex = 0
  /\ nowMs = 0
  /\ lastBlinkTime = 0
  /\ firstBlinkTime = 0
  /\ secondBlinkTime = 0
  /\ blinkCount = 0
  /\ lastHIDCommandTime = 0
  /\ totalBlinks = 0
  /\ accepted = FALSE
  /\ emitted = <<>>
  /\ keySent = "none"
  /\ reference = ReferenceStart

\* state at the return of setup() of the slides sketch
Init ==
  /\ InitCommon
  /\ variant = "slides"
  /\ micros = SETUP_DELAY_MS * 1000
  /\ millis = SETUP_DELAY_MS
  /\ lastSegmentTimeMs = SETUP_DELAY_MS

\* state at the return of setup() of either sketch
InitBlink ==
  /\ InitCommon
  /\ variant \in {"slides", "dino"}
  /\ millis = (IF variant = "slides" THEN SETUP_DELAY_MS ELSE DINO_SETUP_DELAY_MS)
  /\ micros = millis * 1000
  /\ lastSegmentTimeMs = millis

\* ------------------------------------------------------- actions of Spec

\* top of loop(): read micros(), charge the elapsed interval to timer
LoopStart(d) ==
  /\ pc = "loop"
  /\ cycles < MaxCycles
  /\ micros' = UAdd(micros, d)
  /\ millis' = UAdd(millis, ((micros + d) \div 1000) - (micros \div 1000))
  /\ lastMicros' = micros'
  /\ timer' = ChargeTimer(timer, ToLong(USub(micros', lastMicros)))
  /\ pc' = "acquire"
  /\ UNCHANGED <<cycles, variant, signalVars, queueVars, envelopeVars, historyVars, segmentVars, blinkVars>>
  /\ UNCHANGED reference

\* one iteration of while (timer < 0): acquire, filter and push one sample
AcquireSample ==
  /\ pc = "acquire"
  /\ timer < 0
  /\ timer' = timer + period
  /\ nAcquired' = nAcquired + 1
  /\ eogCircBuffer' = [eogCircBuffer EXCEPT ![writeIndex] = FilteredSample(nAcquired')]
  /\ writeIndex' = NextIndex(writeIndex)
  /\ samplesAvailable' = PushCount(samplesAvailable)
  /\ UNCHANGED <<pc, cycles, variant, micros, millis, lastMicros, gain, alternate,
                 readIndex, eog, envelopeVars, historyVars, segmentVars, blinkVars>>
  /\ UNCHANGED reference

\* exit of while (timer < 0)
AcquireDone ==
  /\ pc = "acquire"
  /\ timer >= 0
  /\ pc' = "drain"
  /\ UNCHANGED <<cycles, variant, timingVars, signalVars, queueVars, envelopeVars,
                 historyVars, segmentVars, blinkVars>>
  /\ UNCHANGED reference

\* first half of one iteration of while (samplesAvailable > 0): pop
PopSample ==
  /\ pc = "drain"
  /\ samplesAvailable > 0
  /\ eog' = eogCircBuffer[readIndex]
  /\ readIndex' = NextIndex(readIndex)
  /\ samplesAvailable' = PopCount(samplesAvailable)
  /\ pc' = "process"
  /\ UNCHANGED <<cycles, variant, timingVars, signalVars, eogCircBuffer, writeIndex,
                 envelopeVars, historyVars, segmentVars, blinkVars>>
  /\ UNCHANGED reference

\* second half of the iteration: envelope update and segment buffer
ProcessSample ==
  /\ pc = "process"
  /\ LET e == updateEOGEnvelope(eogEnvelopeBuffer, eogEnvelopeIndex, eogEnvelopeSum, eog)
     IN /\ eogEnvelopeBuffer' = e.buffer
        /\ eogEnvelopeIndex' = e.index
        /\ eogEnvelopeSum' = e.sum
        /\ currentEOGEnvelope' = e.result
  /\ passed' = LastWindow(Append(passed, eog))
  /\ segmentIndex' = IF SegmentHasRoom(segmentIndex) THEN segmentIndex + 1
                     ELSE segmentIndex
  /\ pc' = "drain"
  /\ UNCHANGED <<cycles, variant, timingVars, signalVars, queueVars, lastSegmentTimeMs,
                 blinkVars>>
  /\ UNCHANGED reference

\* exit of while (samplesAvailable > 0)
DrainDone ==
  /\ pc = "drain"
  /\ samplesAvailable = 0
  /\ pc' = "classify"
  /\ UNCHANGED <<cycles, variant, timingVars, signalVars, queueVars, envelopeVars,
                 historyVars, segmentVars, blinkVars>>
  /\ UNCHANGED reference

\* rest of loop(): segment reset, blink detection, timeouts, sink
Classify ==
  /\ pc = "classify"
  /\ segmentIndex' = IF SegmentElapsed(millis, lastSegmentTimeMs) THEN 0 ELSE segmentIndex
  /\ lastSegmentTimeMs' = IF SegmentElapsed(millis, lastSegmentTimeMs) THEN millis
                          ELSE lastSegmentTimeMs
  /\ SlidesDetect(millis, currentEOGEnvelope, 0)
  /\ micros' = UAdd(micros, USub(millis', millis) * 1000)
  /\ cycles' = cycles + 1
  /\ pc' = "loop"
  /\ UNCHANGED <<variant, lastMicros, timer, signalVars, queueVars, envelopeVars,
                 historyVars>>
  /\ UNCHANGED reference

Next ==
  \/ \E d \in ElapsedUs : LoopStart(d)
  \/ AcquireSample
  \/ AcquireDone
  \/ PopSample
  \/ ProcessSample
  \/ DrainDone
  \/ Classify

Spec == Init /\ [][Next]_vars

\* the processor keeps executing loop(): no step that can be taken waits forever
SpecFair == Init /\ [][Next]_vars /\ WF_vars(Next)

\* top of loop() in a long run at the sampling period
SteadyLoopStart(d) ==
  /\ pc = "loop"
  /\ cycles < MaxSegmentCycles
  /\ micros' = UAdd(micros, d)
  /\ millis' = UAdd(millis, ((micros + d) \div 1000) - (micros \div 1000))
  /\ lastMicros' = micros'
  /\ timer' = ChargeTimer(timer, ToLong(USub(micros', lastMicros)))
  /\ pc' = "acquire"
  /\ UNCHANGED <<cycles, variant, signalVars, queueVars, envelopeVars, historyVars, segmentVars, blinkVars>>
  /\ UNCHANGED reference

NextSegment ==
  \/ \E d \in SteadyUs : SteadyLoopStart(d)
  \/ AcquireSample
  \/ AcquireDone
  \/ PopSample
  \/ ProcessSample
  \/ DrainDone
  \/ Classify

\* lines 260-328 of the slides sketch applied to the record r: SlidesDetect as a function
ReferenceCycle(r, d, env, lag) ==
  LET t == UAdd(r.millis, d)
      c == SlidesClassifier(
             [lastBlinkTime |-> r.lastBlinkTime, firstBlinkTime |-> r.firstBlinkTime,
              secondBlinkTime |-> r.secondBlinkTime, blinkCount |-> r.blinkCount,
              accepted |-> FALSE, emitted |-> <<>>, call |-> "none"], env, t)
      sinkNow == UAdd(t, lag)
      send == c.call # "none" /\ CooldownElapsed(sinkNow, r.lastHIDCommandTime)
  IN [shift |-> r.shift,
      millis |-> IF c.call = "none" THEN t
                 ELSE IF send THEN UAdd(sinkNow, SinkDelay(c.call)) ELSE sinkNow,
      lastBlinkTime |-> c.lastBlinkTime, firstBlinkTime |-> c.firstBlinkTime,
      secondBlinkTime |-> c.secondBlinkTime, blinkCount |-> c.blinkCount,
      lastHIDCommandTime |-> IF send THEN sinkNow ELSE r.lastHIDCommandTime,
      accepted |-> c.accepted, emitted |-> c.emitted,
      keySent |-> IF send THEN SinkKey(c.call) ELSE "none"]

\* the slides sketch with every value of millis() moved by the same amount, so that
\* the counter wraps x ms after setup(); reference is the run that starts at 0
\* (micros() has its own wrap and is not read by the blink logic)
InitWrap ==
  \E x \in WrapAfterMs :
    LET shift == WordModulus - (SETUP_DELAY_MS + x)
    IN /\ pc = "loop"
       /\ cycles = 0
       /\ variant = "slides"
       /\ micros = 0
       /\ lastMicros = 0
       /\ timer = 0
       /\ gain = 1
       /\ alternate = FALSE
       /\ nAcquired = 0
       /\ eogCircBuffer = [i \in 0..(BUFFER_SIZE - 1) |-> 0]
       /\ writeIndex = 0
       /\ readIndex = 0
       /\ samplesAvailable = 0
       /\ eog = 0
       /\ passed = <<>>
       /\ eogEnvelopeBuffer = [i \in 0..(ENVELOPE_WINDOW_SIZE - 1) |-> 0]
       /\ eogEnvelopeIndex = 0
       /\ eogEnvelopeSum = 0
       /\ currentEOGEnvelope = <<0, 1>>
       /\ segmentIndex = 0
       /\ millis = UAdd(SETUP_DELAY_MS, shift)
       /\ lastSegmentTimeMs = millis
       /\ nowMs = shift
       /\ lastBlinkTime = shift
       /\ firstBlinkTime = shift
       /\ secondBlinkTime = shift
       /\ blinkCount = 0
       /\ lastHIDCommandTime = shift
       /\ totalBlinks = 0
       /\ accepted = FALSE
       /\ emitted = <<>>
       /\ keySent = "none"
       /\ reference = [ReferenceStart EXCEPT !.shift = shift]

\* one loop() of the slides sketch, and the same loop() of the reference run
WrapCycle(d, env, lag) ==
  /\ variant = "slides"
  /\ cycles < MaxWrapCycles
  /\ currentEOGEnvelope' = env
  /\ SlidesDetect(UAdd(millis, d), env, lag)
  /\ lag = 0 \/ emitted' # <<>>
  /\ reference' = ReferenceCycle(reference, d, env, lag)
  /\ cycles' = cycles + 1
  /\ UNCHANGED <<pc, variant, micros, lastMicros, timer, signalVars, queueVars,
                 eogEnvelopeBuffer, eogEnvelopeIndex, eogEnvelopeSum, historyVars,
                 segmentVars>>

NextWrap ==
  \E d \in ElapsedMs, env \in Envelopes, lag \in SinkLagMs : WrapCycle(d, env, lag)

\* the blink logic of the slides sketch run across the wrap of millis()
SpecWrap == InitWrap /\ [][NextWrap]_vars

\* the slides sketch run long enough for a one-second segment to fill and reset
SpecSegment == Init /\ [][NextSegment]_vars

\* --------------------------------------------------- actions of SpecBlink

\* one loop() of the slides sketch: d ms pass, the drain loop leaves env
SlidesCycle(d, env, lag) ==
  /\ variant = "slides"
  /\ cycles < MaxBlinkCycles
  /\ currentEOGEnvelope' = env
  /\ SlidesDetect(UAdd(millis, d), env, lag)
  /\ lag = 0 \/ emitted' # <<>>
  /\ cycles' = cycles + 1
  /\ UNCHANGED <<pc, variant, micros, lastMicros, timer, signalVars, queueVars,
                 eogEnvelopeBuffer, eogEnvelopeIndex, eogEnvelopeSum, historyVars,
                 segmentVars>>
  /\ UNCHANGED reference

\* one loop() of the Dino sketch
DinoCycle(d, env, lag) ==
  /\ variant = "dino"
  /\ cycles < MaxBlinkCycles
  /\ currentEOGEnvelope' = env
  /\ DinoDetect(UAdd(millis, d), env, lag)
  /\ lag = 0 \/ accepted'
  /\ cycles' = cycles + 1
  /\ UNCHANGED <<pc, variant, micros, lastMicros, timer, signalVars, queueVars,
                 eogEnvelopeBuffer, eogEnvelopeIndex, eogEnvelopeSum, historyVars,
                 segmentVars>>
  /\ UNCHANGED reference

NextBlink ==
  \/ \E d \in ElapsedMs, env \in Envelopes, lag \in SinkLagMs : SlidesCycle(d, env, lag)
  \/ \E d \in ElapsedMs, env \in Envelopes, lag \in SinkLagMs : DinoCycle(d, env, lag)

SpecBlink == InitBlink /\ [][NextBlink]_vars

InitDino == InitBlink /\ variant = "dino"

NextDino ==
  \E d \in DinoElapsedMs, env \in Envelopes, lag \in DinoSinkLagMs : DinoCycle(d, env, lag)

\* the Dino sketch alone, with sink lags on both sides of debounce - cooldown
SpecDino == InitDino /\ [][NextDino]_vars

\* ------------------------------------------------------------ properties

\* exact sum of eogEnvelopeBuffer[0 .. n-1]
RECURSIVE SumBuffer(_, _)
SumBuffer(buf, n) == IF n = 0 THEN 0 ELSE buf[n - 1] + SumBuffer(buf, n - 1)

\* exact sum of the absolute values of a sequence
RECURSIVE SumAbs(_)
SumAbs(q) == IF q = <<>> THEN 0 ELSE Fabs(Head(q)) + SumAbs(Tail(q))

\* the sample a FIFO queue with drop-oldest overflow holds as its oldest unread
\* entry when unread entries are left unread after nAcquired pushes
OldestUnread(unread) == FilteredSample(nAcquired - unread + 1)

\* C1: every sample popped from eogCircBuffer is the oldest sample not yet
\* popped and not dropped by overflow, so samples leave in the order they
\* entered, none twice.
C1_SampleQueueFIFO ==
  pc = "process" => eog = OldestUnread(samplesAvailable + 1)

\* C2: the unread count is within [0, BUFFER_SIZE] in every state, also between
\* the pushes and pops of one cycle.
C2_CountWithinCapacity ==
  samplesAvailable >= 0 /\ samplesAvailable <= BUFFER_SIZE

\* C2 witness: more than BUFFER_SIZE samples were pushed without a pop and the
\* count stands at BUFFER_SIZE.
C2_Witness ==
  /\ pc = "acquire"
  /\ cycles = 0
  /\ nAcquired > BUFFER_SIZE + 1
  /\ samplesAvailable = BUFFER_SIZE

\* C3: a push into a full queue overwrites the slot of the oldest unread entry,
\* the entry the next pop would have returned, and whenever the queue is full
\* the next pop returns the oldest surviving entry.
C3_OverflowDropsOldest ==
  samplesAvailable = BUFFER_SIZE =>
    /\ eogCircBuffer[readIndex] = OldestUnread(BUFFER_SIZE)
    /\ (pc = "acquire" /\ timer < 0) => writeIndex = readIndex

\* C4: eogEnvelopeSum is the exact sum of the ENVELOPE_WINDOW_SIZE entries of
\* eogEnvelopeBuffer after every call of updateEOGEnvelope.
C4_EnvelopeRunningSum ==
  eogEnvelopeSum = SumBuffer(eogEnvelopeBuffer, ENVELOPE_WINDOW_SIZE)

\* C4 witness: more than two windows of samples have gone through the envelope
\* and the sum is not zero.
C4_Witness ==
  /\ pc = "drain"
  /\ segmentIndex > 2 * ENVELOPE_WINDOW_SIZE
  /\ eogEnvelopeSum > 0

SlidesLoop == variant = "slides" /\ cycles' = cycles + 1
\* a step that is one loop() of either sketch
AnyLoop == cycles' = cycles + 1

\* C6: from two blinks (the second within DOUBLE_BLINK_MS of the first) on,
\* cycles that accept no tick emit nothing while now - secondBlinkTime is at
\* most TRIPLE_BLINK_MS, and the first cycle beyond it emits exactly Double and
\* returns to Idle, where cycles without a tick emit nothing.
C6_DoubleBlink ==
  [][SlidesLoop =>
       /\ (blinkCount = 1 /\ accepted' /\ USub(nowMs', firstBlinkTime) <= DOUBLE_BLINK_MS)
            => (blinkCount' = 2 /\ secondBlinkTime' = nowMs' /\ emitted' = <<>>)
       /\ (blinkCount = 2 /\ ~accepted' /\ USub(nowMs', secondBlinkTime) <= TRIPLE_BLINK_MS)
            => (blinkCount' = 2 /\ secondBlinkTime' = secondBlinkTime /\ emitted' = <<>>)
       /\ (blinkCount = 2 /\ ~accepted' /\ USub(nowMs', secondBlinkTime) > TRIPLE_BLINK_MS)
            => (blinkCount' = 0 /\ emitted' = <<"Double">>)
       /\ (blinkCount = 0 /\ ~accepted') => (blinkCount' = 0 /\ emitted' = <<>>)
  ]_vars

\* C6 witness: Double was emitted by the timeout of a pair of blinks.
C6_Witness ==
  /\ variant = "slides"
  /\ emitted = <<"Double">>
  /\ ~accepted
  /\ blinkCount = 0
  /\ USub(nowMs, secondBlinkTime) > TRIPLE_BLINK_MS
  /\ USub(secondBlinkTime, firstBlinkTime) <= DOUBLE_BLINK_MS
  /\ lastBlinkTime = secondBlinkTime

\* C7: a tick accepted with two blinks counted and at most TRIPLE_BLINK_MS after
\* the second emits exactly Triple in that cycle and returns to Idle; no cycle
\* within that window emits Double, and cycles starting with fewer than two
\* blinks emit nothing.
C7_TripleBlink ==
  [][SlidesLoop =>
       /\ (blinkCount = 2 /\ accepted' /\ USub(nowMs', secondBlinkTime) <= TRIPLE_BLINK_MS)
            => (emitted' = <<"Triple">> /\ blinkCount' = 0)
       /\ (blinkCount = 2 /\ USub(nowMs', secondBlinkTime) <= TRIPLE_BLINK_MS)
            => (\A i \in 1..Len(emitted') : emitted'[i] # "Double")
       /\ blinkCount \in {0, 1} => emitted' = <<>>
  ]_vars

\* C7 witness: Triple was emitted in the cycle of the third tick.
C7_Witness ==
  /\ variant = "slides"
  /\ emitted = <<"Triple">>
  /\ accepted
  /\ blinkCount = 0
  /\ lastBlinkTime = nowMs
  /\ USub(nowMs, secondBlinkTime) <= TRIPLE_BLINK_MS
  /\ USub(secondBlinkTime, firstBlinkTime) <= DOUBLE_BLINK_MS

\* C8 as stated: with one blink counted, the first cycle whose time exceeds
\* firstBlinkTime + DOUBLE_BLINK_MS emits nothing and ends in Idle.
C8_SingleReturnsToIdle ==
  [][(SlidesLoop /\ blinkCount = 1 /\ USub(nowMs', firstBlinkTime) > DOUBLE_BLINK_MS)
       => (emitted' = <<>> /\ blinkCount' = 0)
  ]_vars

\* C8 amended: with one blink counted, cycles without a tick within the window
\* keep the count and emit nothing; the first cycle beyond the window emits
\* nothing and ends in Idle unless it accepts a tick itself, and then that
\* tick is the first blink of a new sequence.
C8_SingleDiscarded ==
  [][(SlidesLoop /\ blinkCount = 1) =>
       /\ emitted' = <<>>
       /\ (~accepted' /\ USub(nowMs', firstBlinkTime) <= DOUBLE_BLINK_MS)
            => (blinkCount' = 1 /\ firstBlinkTime' = firstBlinkTime)
       /\ (~accepted' /\ USub(nowMs', firstBlinkTime) > DOUBLE_BLINK_MS)
            => blinkCount' = 0
       /\ (accepted' /\ USub(nowMs', firstBlinkTime) > DOUBLE_BLINK_MS)
            => (blinkCount' = 1 /\ firstBlinkTime' = nowMs')
  ]_vars

\* C8 witness: a single blink has timed out without a pattern.
C8_Witness ==
  /\ variant = "slides"
  /\ blinkCount = 0
  /\ ~accepted
  /\ emitted = <<>>
  /\ lastBlinkTime = firstBlinkTime
  /\ firstBlinkTime > 0
  /\ USub(nowMs, firstBlinkTime) > DOUBLE_BLINK_MS
  /\ USub(nowMs, firstBlinkTime) <= DOUBLE_BLINK_MS + 1

\* the debounce interval of the sketch running
DebounceMs == IF variant = "slides" THEN BLINK_DEBOUNCE_MS ELSE DINO_BLINK_DEBOUNCE_MS

\* C9: a cycle with the envelope in band less than the debounce interval after
\* lastBlinkTime leaves lastBlinkTime, firstBlinkTime and secondBlinkTime alone,
\* changes blinkCount only by a timeout, emits no Triple and presses no space
\* bar; every accepted tick is at least the debounce interval after the
\* previous one.
C9_Debounce ==
  [][AnyLoop =>
       /\ (InBand(currentEOGEnvelope') /\ USub(nowMs', lastBlinkTime) < DebounceMs) =>
            /\ ~accepted'
            /\ lastBlinkTime' = lastBlinkTime
            /\ firstBlinkTime' = firstBlinkTime
            /\ secondBlinkTime' = secondBlinkTime
            /\ \/ blinkCount' = blinkCount
               \/ /\ blinkCount' = 0
                  /\ \/ blinkCount = 1 /\ USub(nowMs', firstBlinkTime) > DOUBLE_BLINK_MS
                     \/ blinkCount = 2 /\ USub(nowMs', secondBlinkTime) > TRIPLE_BLINK_MS
            /\ \A i \in 1..Len(emitted') : emitted'[i] # "Triple"
            /\ variant = "dino" => (keySent' = "none" /\ totalBlinks' = totalBlinks)
       /\ accepted' =>
            (lastBlinkTime' = nowMs' /\ USub(lastBlinkTime', lastBlinkTime) >= DebounceMs)
  ]_vars

\* C9 witness: an in-band envelope was ignored inside the debounce interval of
\* an accepted tick.
C9_Witness ==
  /\ cycles > 1
  /\ lastBlinkTime > 0
  /\ InBand(currentEOGEnvelope)
  /\ ~accepted
  /\ USub(nowMs, lastBlinkTime) < DebounceMs
  /\ blinkCount = 2

\* C10: a timeout takes effect in the first cycle beyond its window whether or
\* not that cycle accepts a tick: with two blinks counted, a cycle with
\* now - secondBlinkTime > TRIPLE_BLINK_MS emits Double; with one blink counted,
\* a cycle with now - firstBlinkTime > DOUBLE_BLINK_MS ends that sequence.
C10_TimeoutTieBreak ==
  [][SlidesLoop =>
       /\ (blinkCount = 2 /\ USub(nowMs', secondBlinkTime) > TRIPLE_BLINK_MS)
            => (\E i \in 1..Len(emitted') : emitted'[i] = "Double")
       /\ (blinkCount = 1 /\ USub(nowMs', firstBlinkTime) > DOUBLE_BLINK_MS)
            => (blinkCount' = 0 \/ firstBlinkTime' = nowMs')
  ]_vars

\* C11: window tests are inclusive for ticks and strict for timeouts: a tick
\* accepted exactly DOUBLE_BLINK_MS after the first blink is the second blink,
\* one exactly TRIPLE_BLINK_MS after the second yields Triple, a cycle exactly
\* at a window's end fires no timeout, and a timeout that fires has seen more
\* than its window elapse.
C11_WindowBoundaries ==
  [][SlidesLoop =>
       /\ (blinkCount = 1 /\ accepted' /\ USub(nowMs', firstBlinkTime) = DOUBLE_BLINK_MS)
            => (blinkCount' = 2 /\ secondBlinkTime' = nowMs')
       /\ (blinkCount = 2 /\ accepted' /\ USub(nowMs', secondBlinkTime) = TRIPLE_BLINK_MS)
            => emitted' = <<"Triple">>
       /\ (blinkCount = 1 /\ ~accepted' /\ USub(nowMs', firstBlinkTime) = DOUBLE_BLINK_MS)
            => blinkCount' = 1
       /\ (blinkCount = 2 /\ ~accepted' /\ USub(nowMs', secondBlinkTime) = TRIPLE_BLINK_MS)
            => (blinkCount' = 2 /\ emitted' = <<>>)
       /\ (blinkCount = 1 /\ ~accepted' /\ blinkCount' = 0)
            => USub(nowMs', firstBlinkTime) > DOUBLE_BLINK_MS
       /\ (\E i \in 1..Len(emitted') : emitted'[i] = "Double")
            => (blinkCount = 2 /\ USub(nowMs', secondBlinkTime) > TRIPLE_BLINK_MS)
  ]_vars

\* C11 witness: Triple from ticks exactly DOUBLE_BLINK_MS and TRIPLE_BLINK_MS apart.
C11_Witness ==
  /\ variant = "slides"
  /\ emitted = <<"Triple">>
  /\ USub(nowMs, secondBlinkTime) = TRIPLE_BLINK_MS
  /\ USub(secondBlinkTime, firstBlinkTime) = DOUBLE_BLINK_MS

\* C12 as stated: a cycle accepts a tick only if the envelope left by the
\* preceding cycle was outside the blink band.
C12_AcceptedOnlyOnCrossing ==
  [][(AnyLoop /\ accepted') => ~InBand(currentEOGEnvelope)]_vars

\* C12 amended: a cycle accepts a tick exactly when its envelope is strictly
\* inside the band and the debounce interval has elapsed since lastBlinkTime,
\* whatever the envelope of the preceding cycle was.
C12_AcceptedOnLevel ==
  [][AnyLoop =>
       (accepted' <=>
          /\ RatLT(BlinkLowerThreshold, currentEOGEnvelope')
          /\ RatLT(currentEOGEnvelope', BlinkUpperThreshold)
          /\ USub(nowMs', lastBlinkTime) >= DebounceMs)
  ]_vars

\* C12 witness: three cycles, each with the envelope in band and a tick
\* accepted, ending in Triple.
C12_Witness ==
  /\ variant = "slides"
  /\ cycles = 3
  /\ emitted = <<"Triple">>
  /\ InBand(currentEOGEnvelope)

\* C13: a cycle emits at most one pattern, and a cycle that emits one ends
\* with blinkCount = 0.
C13_ResolutionResets ==
  /\ Len(emitted) <= 1
  /\ emitted # <<>> => blinkCount = 0

\* C13 witness: a pattern was emitted and the classifier is Idle.
C13_Witness ==
  /\ variant = "slides"
  /\ Len(emitted) = 1
  /\ blinkCount = 0
  /\ keySent # "none"

\* C15: a tick accepted with one blink counted and the double window over, or
\* with two counted and the triple window over, ends its cycle with
\* blinkCount = 1 and firstBlinkTime = now.
C15_LateBlinkRestarts ==
  [][(/\ SlidesLoop
      /\ accepted'
      /\ \/ blinkCount = 1 /\ USub(nowMs', firstBlinkTime) > DOUBLE_BLINK_MS
         \/ blinkCount = 2 /\ USub(nowMs', secondBlinkTime) > TRIPLE_BLINK_MS)
       => (blinkCount' = 1 /\ firstBlinkTime' = nowMs')
  ]_vars

\* C15 witness: the fourth cycle accepted a tick TRIPLE_BLINK_MS + 1 after the
\* second blink, which only a pending pair can precede.
C15_Witness ==
  /\ variant = "slides"
  /\ cycles = 4
  /\ accepted
  /\ blinkCount = 1
  /\ firstBlinkTime = nowMs
  /\ secondBlinkTime > 0
  /\ USub(nowMs, secondBlinkTime) = TRIPLE_BLINK_MS + 1

\* C16: the cursors agree with the unread count in every state:
\* (writeIndex - readIndex) mod BUFFER_SIZE = samplesAvailable mod BUFFER_SIZE,
\* so an empty queue has readIndex = writeIndex.
C16_CursorsSynchronized ==
  /\ (writeIndex - readIndex) % BUFFER_SIZE = samplesAvailable % BUFFER_SIZE
  /\ samplesAvailable = 0 => readIndex = writeIndex

\* C17: once the acquisition loop of a cycle is over, 0 <= timer < period and
\* the number of samples acquired since start is the elapsed microseconds
\* divided by period, rounded up.
C17_ElapsedTimeAccounting ==
  pc \in {"loop", "drain", "process", "classify"} =>
    /\ 0 <= timer
    /\ timer < period
    /\ nAcquired = (lastMicros + period - 1) \div period

\* C17 witness: a later cycle has acquired samples and left a remainder in timer.
C17_Witness ==
  /\ pc = "drain"
  /\ cycles >= 2
  /\ timer > 0
  /\ nAcquired > (SETUP_DELAY_MS * 1000) \div period + 2
  /\ lastMicros % period # 0

\* C18: the drain loop never sees more than BUFFER_SIZE unread samples and only
\* lowers the count, the classifier runs with the queue empty and with the
\* envelope of the last drained sample, and every cycle that starts acquiring
\* reaches the end of loop().
C18_CycleTerminates ==
  /\ [](pc \in {"drain", "process"} => samplesAvailable <= BUFFER_SIZE)
  /\ [][(pc \in {"drain", "process"}) => (samplesAvailable' <= samplesAvailable)]_vars
  /\ [](pc \in {"classify", "loop"} =>
          /\ samplesAvailable = 0
          /\ passed # <<>> =>
               /\ passed[Len(passed)] = eog
               /\ currentEOGEnvelope = <<eogEnvelopeSum, ENVELOPE_WINDOW_SIZE>>)
  /\ (pc = "acquire") ~> (pc = "drain")
  /\ (pc = "drain") ~> (pc = "classify")
  /\ (pc = "classify") ~> (pc = "loop")

\* C18 witness: a cycle that filled the queue has ended with the queue empty.
C18_Witness ==
  /\ pc = "loop"
  /\ cycles >= 1
  /\ samplesAvailable = 0
  /\ Len(passed) = ENVELOPE_WINDOW_SIZE
  /\ nAcquired > BUFFER_SIZE


\* ------------------------------------------------------------------ C19

CooldownMs == IF variant = "slides" THEN HID_COOLDOWN_MS ELSE DINO_HID_COOLDOWN_MS

\* C19: lastHIDCommandTime changes only when a key is sent, and then by at
\* least the variant's cooldown (1000 ms slides, 250 ms Dino), so two keys
\* sent are at least the cooldown apart by the sink's clock, Left and Right
\* sharing one timestamp; a pattern dispatched inside the cooldown sends no
\* key, leaves lastHIDCommandTime alone and still resets blinkCount to 0.
C19_HIDCooldown ==
  [][AnyLoop =>
       /\ keySent' # "none" =>
            USub(lastHIDCommandTime', lastHIDCommandTime) >= CooldownMs
       /\ keySent' = "none" => lastHIDCommandTime' = lastHIDCommandTime
       /\ emitted' # <<>> => blinkCount' = 0
       /\ (emitted' # <<>> /\ keySent' = "none") =>
            USub(millis', lastHIDCommandTime) < HID_COOLDOWN_MS
  ]_vars

\* a Triple dispatched less than a second after a key was sent: nothing sent
C19_Witness ==
  /\ variant = "slides"
  /\ emitted = <<"Triple">>
  /\ keySent = "none"
  /\ lastHIDCommandTime > 0
  /\ blinkCount = 0


\* ------------------------------------------------------------------ C20

\* C20: at the end of every cycle of the slides sketch blinkCount is 0, 1 or
\* 2; with one blink pending it is the last accepted one and at most
\* DOUBLE_BLINK_MS old; with two pending the second is the last accepted one,
\* lies between BLINK_DEBOUNCE_MS and DOUBLE_BLINK_MS after the first and is
\* at most TRIPLE_BLINK_MS old.
C20_ClassifierStateInvariant ==
  variant = "slides" =>
    /\ blinkCount \in {0, 1, 2}
    /\ blinkCount = 1 =>
         /\ lastBlinkTime = firstBlinkTime
         /\ USub(nowMs, firstBlinkTime) <= DOUBLE_BLINK_MS
    /\ blinkCount = 2 =>
         /\ lastBlinkTime = secondBlinkTime
         /\ BLINK_DEBOUNCE_MS <= USub(secondBlinkTime, firstBlinkTime)
         /\ USub(secondBlinkTime, firstBlinkTime) <= DOUBLE_BLINK_MS
         /\ USub(nowMs, secondBlinkTime) <= TRIPLE_BLINK_MS

\* two blinks pending at both limits: the second exactly the debounce after
\* the first, and a cycle exactly TRIPLE_BLINK_MS later that accepts nothing
C20_Witness ==
  /\ variant = "slides"
  /\ blinkCount = 2
  /\ USub(secondBlinkTime, firstBlinkTime) = BLINK_DEBOUNCE_MS
  /\ USub(nowMs, secondBlinkTime) = TRIPLE_BLINK_MS
  /\ ~accepted


\* ------------------------------------------------------------------ C21

\* C21: every index stays inside its array: writeIndex and readIndex in
\* 0..BUFFER_SIZE-1, eogEnvelopeIndex in 0..ENVELOPE_WINDOW_SIZE-1,
\* segmentIndex in 0..SAMPLES_PER_SEGMENT; segmentIndex moves only by the
\* reset to 0 or by the increment that goes with a write of eogBuffer, and
\* that write happens only at segmentIndex < SAMPLES_PER_SEGMENT.
C21_IndicesInBounds ==
  /\ [](/\ writeIndex \in 0..(BUFFER_SIZE - 1)
        /\ readIndex \in 0..(BUFFER_SIZE - 1)
        /\ DOMAIN eogCircBuffer = 0..(BUFFER_SIZE - 1)
        /\ eogEnvelopeIndex \in 0..(ENVELOPE_WINDOW_SIZE - 1)
        /\ DOMAIN eogEnvelopeBuffer = 0..(ENVELOPE_WINDOW_SIZE - 1)
        /\ segmentIndex \in 0..SAMPLES_PER_SEGMENT)
  /\ [][(segmentIndex' # segmentIndex) =>
          \/ segmentIndex' = 0
          \/ /\ segmentIndex < SAMPLES_PER_SEGMENT
             /\ segmentIndex' = segmentIndex + 1]_vars

\* a sample popped at the wrap of readIndex while the segment buffer is full
C21_Witness ==
  /\ pc = "process"
  /\ segmentIndex = SAMPLES_PER_SEGMENT
  /\ readIndex = 0


\* ------------------------------------------------------------------ C22

\* margin the Dino debounce leaves over the sink cooldown
DinoLagMargin == DINO_BLINK_DEBOUNCE_MS - DINO_HID_COOLDOWN_MS

\* C22: in the Dino sketch, a tick accepted while the last key was sent less
\* than DinoLagMargin after the tick that caused it sends the space key in
\* the same cycle and adds one to totalBlinks; a cycle that accepts no tick
\* sends nothing and leaves totalBlinks alone.
C22_DinoEveryTickJumps ==
  [][(variant = "dino" /\ AnyLoop) =>
       /\ (accepted' /\ USub(lastHIDCommandTime, lastBlinkTime) < DinoLagMargin) =>
            /\ keySent' = "Space"
            /\ totalBlinks' = totalBlinks + 1
            /\ lastBlinkTime' = nowMs'
       /\ ~accepted' =>
            /\ keySent' = "none"
            /\ totalBlinks' = totalBlinks
  ]_vars

\* a third jump, the sink reading the clock just inside the margin
C22_Witness ==
  /\ variant = "dino"
  /\ accepted
  /\ keySent = "Space"
  /\ totalBlinks = 3
  /\ USub(lastHIDCommandTime, lastBlinkTime) = DinoLagMargin - 1


\* ------------------------------------------------------------------ C23

\* C23: a run of the slides blink logic whose millis() wraps accepts the same
\* ticks, emits the same patterns, sends the same keys and holds the same
\* blink count in every cycle as the same run moved back so that it starts at
\* counter value 0, and its recorded timestamps are the reference's moved by
\* the same amount modulo the word size.
C23_WrapInvisible ==
  /\ accepted = reference.accepted
  /\ emitted = reference.emitted
  /\ keySent = reference.keySent
  /\ blinkCount = reference.blinkCount
  /\ millis = UAdd(reference.millis, reference.shift)
  /\ lastBlinkTime = UAdd(reference.lastBlinkTime, reference.shift)
  /\ firstBlinkTime = UAdd(reference.firstBlinkTime, reference.shift)
  /\ secondBlinkTime = UAdd(reference.secondBlinkTime, reference.shift)
  /\ lastHIDCommandTime = UAdd(reference.lastHIDCommandTime, reference.shift)

\* a Triple whose first blink was recorded before the wrap and whose second
\* and third after it, the Left key going out after the wrap
C23_Witness ==
  /\ reference.shift # 0
  /\ emitted = <<"Triple">>
  /\ keySent = "Left"
  /\ secondBlinkTime < firstBlinkTime
  /\ secondBlinkTime < lastBlinkTime
  /\ lastHIDCommandTime < firstBlinkTime

====
